---- MODULE Spec2Model ----
(***************************************************************************)
(* A model of anime2sd/folder_manipulation.py: the label synchronizer      *)
(* save_characters_to_meta and the export pass resize_character_images.    *)
(*                                                                         *)
(* Python strings are sequences of one-character strings, so that split,   *)
(* join, startswith, lower, splitext and replace are computed as Python    *)
(* computes them.  A Python dict is a function whose DOMAIN is its key     *)
(* set; the metadata store is a function whose DOMAIN is the set of        *)
(* metadata files that exist.                                              *)
(***************************************************************************)
EXTENDS Integers, Sequences, FiniteSets, TLC

(***************************************************************************)
(* Bounds of the model.                                                    *)
(***************************************************************************)
\* number of image files under crop_dir in the synchronizer's world
NCrops == 2
\* number of successive runs of save_characters_to_meta
MaxRuns == 2
\* number of images under crop_dir in the export pass's world
NXCrops == 1
\* number of images under full_dir in the export pass's world
NXFrames == 2
\* largest n_nocharacter_frames
MaxN == 2
\* largest height and width of the images resize_image is applied to
MaxSide == 5

(***************************************************************************)
(* Python string functions.                                                *)
(***************************************************************************)
RECURSIVE SplitFrom(_, _, _)
\* str.split(sep) continued: cur is the piece being read
SplitFrom(s, sep, cur) ==
    IF s = <<>> THEN <<cur>>
    ELSE IF Head(s) = sep THEN <<cur>> \o SplitFrom(Tail(s), sep, <<>>)
    ELSE SplitFrom(Tail(s), sep, Append(cur, Head(s)))

\* s.split(sep) for a one-character separator
Split(s, sep) == SplitFrom(s, sep, <<>>)

RECURSIVE Join(_, _)
\* sep.join(parts)
Join(sep, parts) ==
    IF parts = <<>> THEN <<>>
    ELSE IF Len(parts) = 1 THEN parts[1]
    ELSE parts[1] \o <<sep>> \o Join(sep, Tail(parts))

\* s.startswith(p)
StartsWith(s, p) == Len(s) >= Len(p) /\ SubSeq(s, 1, Len(p)) = p

\* s.endswith(p)
EndsWith(s, p) == Len(s) >= Len(p) /\ SubSeq(s, Len(s) - Len(p) + 1, Len(s)) = p

\* the upper-case letters of the model's alphabet and their lower case
LowerCh(c) ==
    CASE c = "J" -> "j"
      [] c = "P" -> "p"
      [] c = "G" -> "g"
      [] c = "N" -> "n"
      [] OTHER -> c

\* s.lower()
Lower(s) == [i \in 1..Len(s) |-> LowerCh(s[i])]

\* os.path.splitext of a file name without directory part: the extension
\* starts at the last dot, unless only dots precede it
SplitExt(name) ==
    LET dots == {i \in 1..Len(name) : name[i] = "."}
        last == IF dots = {} THEN 0 ELSE CHOOSE i \in dots : \A j \in dots : j <= i
    IN  IF last = 0 \/ (\A j \in 1..(last - 1) : name[j] = ".")
        THEN <<name, <<>>>>
        ELSE <<SubSeq(name, 1, last - 1), SubSeq(name, last, Len(name))>>

RECURSIVE Replace(_, _, _)
\* s.replace(old, new) for non-empty old: every non-overlapping occurrence,
\* left to right
Replace(s, old, new) ==
    IF Len(s) < Len(old) THEN s
    ELSE IF SubSeq(s, 1, Len(old)) = old
         THEN new \o Replace(SubSeq(s, Len(old) + 1, Len(s)), old, new)
         ELSE <<Head(s)>> \o Replace(Tail(s), old, new)

\* x in list
InList(x, l) == \E i \in 1..Len(l) : l[i] = x

\* the elements of a list
Range(l) == {l[i] : i \in 1..Len(l)}

\* d[k] = v on a dict (the key is added when new)
SetKey(d, k, v) == [x \in DOMAIN d \cup {k} |-> IF x = k THEN v ELSE d[x]]

(***************************************************************************)
(* Names.  A path is <<directory, file name>>.                             *)
(***************************************************************************)
PNG == <<".", "p", "n", "g">>
JPG == <<".", "j", "p", "g">>
JPEG == <<".", "j", "p", "e", "g">>
WEBP == <<".", "w", "e", "b", "p">>
GIF == <<".", "g", "i", "f">>
NOISE == <<"n", "o", "i", "s", "e">>

\* the extensions save_characters_to_meta takes for images
ImageExts == {PNG, JPG, JPEG, WEBP, GIF}

\* the folders of crop_dir: two character folders, a noise folder
CropFolders ==
    { <<"0", "_", "a">>, <<"1", "_", "b">>,
      <<"2", "_", "n", "o", "i", "s", "e", "_", "x">> }

\* the files of the crop tree, as <<folder, extension>>: an image in each
\* folder, a file that is no image in one
CropEntries ==
    (CropFolders \X { <<".", "J", "P", "G">> })
        \cup { << <<"0", "_", "a">>, <<".", "t", "x", "t">> >> }

Digit == <<"1", "2", "3", "4", "5">>

\* the file name of the i-th file of the crop tree
CropFileName(i, ext) == <<"c", Digit[i]>> \o ext

FullDir == <<"f", "u", "l", "l">>

\* the one original frame of the synchronizer's world
Frame == <<FullDir, <<"f", "1">> \o PNG>>

\* get_corr_meta_names: the metadata file of an image, in the image's
\* directory and named after the image's name without its extension (the
\* fixed decoration of the name is left out: it does not change which
\* images share a metadata file)
MetaName(name) == SplitExt(name)[1]

MetaPath(p) == <<p[1], MetaName(p[2])>>

\* default_metadata(path): no characters, the filename taken from the path
DefaultMetadata(p) == [k \in {"path", "filename"} |->
                          IF k = "path" THEN p ELSE p[2]]

\* the derived character name of a folder
CharName(folder_name) == Join("_", Tail(Split(folder_name, "_")))

(***************************************************************************)
(* State.                                                                  *)
(***************************************************************************)
VARIABLES
    tree,         \* the image files under crop_dir in listing order: paths
    meta,         \* the metadata store: metadata path -> record
    encountered,  \* encountered_paths of the current run
    idx,          \* position of the run in the listing
    status,       \* "idle", "running", "done", "failed"
    run,          \* number of runs started
    meta0,        \* the store when the current run started
    snaps,        \* the store at the end of each completed run
    rlog,         \* metadata files read in the current run
    wlog,         \* per listed file: metadata files written for it, in order
    xcrops,       \* get_images_recursively(crop_dir): [path, dims] in order
    xfulls,       \* get_images_recursively(full_dir): [path, dims] in order
    args,         \* [max_size, ext, n] of resize_character_images
    phase,        \* "off", "A", "B", "S", "C", "done", "failed"
    pos,          \* position in the list the phase walks
    cands,        \* nocharacter_frames
    selected,     \* selected_frames
    dstImg,       \* image files under dst_dir: <<dir, name>> -> [src, dims]
    dstMeta,      \* metadata files under dst_dir: <<dir, name>> -> [src, rec]
    calls,        \* the calls of save_image_and_meta: [path, dir, enc]
    r_image,      \* resize_image alone: <<height, width>> of its image
    r_max_size,   \* resize_image alone: its max_size
    r_result,     \* resize_image alone: <<height, width>> of what it returned
    given         \* the store before the first run, with the records
                  \* supplied since

svars == <<tree, encountered, idx, status, run, snaps, rlog, wlog>>

xvars == <<xcrops, xfulls, args, phase, pos, cands, selected, dstImg, dstMeta, calls>>

rvars == <<r_image, r_max_size, r_result>>

vars == <<meta, meta0, svars, xvars, rvars, given>>

Crops == 1..NCrops

\* the values the `path` field of a crop record takes in the model: the
\* original frame, or an image of the crop tree
LinkTargets(t) == {Frame} \cup Range(t)

\* what an earlier stage left for a crop: no metadata file, a record without
\* `path`, or a record whose `path` names a target
RecordOptions(t) ==
    {<<"none">>, <<"nopath">>} \cup {<<"link", l>> : l \in LinkTargets(t)}

\* a crop record as an earlier stage left it
CropRecord(p, opt) ==
    LET base == [k \in {"filename", "characters", "tags"} |->
                    CASE k = "filename" -> p[2]
                      [] k = "characters" -> << <<"z">> >>
                      [] OTHER -> <<"t">>]
    IN  IF opt[1] = "link" THEN SetKey(base, "path", opt[2]) ELSE base

\* the frame's record as an earlier run left it: a stale label and a label
\* that this tree derives again
FrameRecord == SetKey(SetKey(DefaultMetadata(Frame), "characters",
                             << <<"z">>, <<"a">> >>), "tags", <<"t">>)

\* listings in which the files of one folder are contiguous
Contiguous(t) ==
    \A i, j, k \in 1..Len(t) :
        (i < j /\ j < k /\ t[i][1] = t[k][1]) => t[j][1] = t[i][1]

\* no export pass
XIdle ==
    /\ xcrops = <<>> /\ xfulls = <<>>
    /\ args = [max_size |-> 1, ext |-> PNG, n |-> 0]
    /\ phase = "off" /\ pos = 1
    /\ cands = <<>> /\ selected = <<>>
    /\ dstImg = <<>> /\ dstMeta = <<>> /\ calls = <<>>
    /\ r_image = <<1, 1>> /\ r_max_size = 1 /\ r_result = <<>>

Init ==
    /\ \E en \in [Crops -> CropEntries] :
          /\ tree = [i \in Crops |-> <<en[i][1], CropFileName(i, en[i][2])>>]
          /\ Contiguous(tree)
    /\ \E opt \in [Crops -> RecordOptions(tree)], frameRec \in BOOLEAN :
          LET present == {i \in Crops : opt[i][1] # "none"}
          IN  meta = [m \in {MetaPath(tree[i]) : i \in present}
                            \cup (IF frameRec THEN {MetaPath(Frame)} ELSE {}) |->
                         IF m = MetaPath(Frame) THEN FrameRecord
                         ELSE LET i == CHOOSE i \in present : MetaPath(tree[i]) = m
                              IN  CropRecord(tree[i], opt[i])]
    /\ encountered = {}
    /\ idx = 1
    /\ status = "idle"
    /\ run = 0
    /\ meta0 = meta
    /\ snaps = <<>>
    /\ rlog = {}
    /\ wlog = [i \in Crops |-> <<>>]
    /\ given = meta
    /\ XIdle

(***************************************************************************)
(* save_characters_to_meta.                                                *)
(***************************************************************************)
\* the call: encountered_paths = set()
StartRun ==
    /\ status \in {"idle", "done"}
    /\ run < MaxRuns
    /\ status' = "running"
    /\ run' = run + 1
    /\ encountered' = {}
    /\ idx' = 1
    /\ meta0' = meta
    /\ rlog' = {}
    /\ wlog' = [i \in Crops |-> <<>>]
    /\ UNCHANGED <<tree, meta, snaps, xvars, rvars, given>>

\* mutant: the folder name, not the derived name, is tested
IsNoiseByFolderName(folder_name) == StartsWith(folder_name, NOISE)

\* lines 25-27: the folder of the file at idx is a noise folder
IsNoise(folder_name) == StartsWith(CharName(folder_name), NOISE)

\* lines 36-41: the file is an image file
IsImageFile(name) == Lower(SplitExt(name)[2]) \in ImageExts

\* the files the run processes
Processed(i) == ~IsNoise(tree[i][1]) /\ IsImageFile(tree[i][2])

\* line 26-27: continue
SkipNoise ==
    /\ status = "running" /\ idx <= NCrops
    /\ IsNoise(tree[idx][1])
    /\ idx' = idx + 1
    /\ UNCHANGED <<tree, meta, encountered, status, run, meta0, snaps, rlog, wlog, xvars, rvars, given>>

\* line 39-41: continue
SkipNonImage ==
    /\ status = "running" /\ idx <= NCrops
    /\ ~IsNoise(tree[idx][1])
    /\ ~IsImageFile(tree[idx][2])
    /\ idx' = idx + 1
    /\ UNCHANGED <<tree, meta, encountered, status, run, meta0, snaps, rlog, wlog, xvars, rvars, given>>

\* mutant: a crop without metadata file starts from an empty record
MissingAsEmpty ==
    /\ status = "running" /\ idx <= NCrops
    /\ Processed(idx)
    /\ MetaPath(tree[idx]) \notin DOMAIN meta
    /\ meta' = SetKey(meta, MetaPath(tree[idx]),
                      [k \in {"characters"} |-> <<CharName(tree[idx][1])>>])
    /\ wlog' = [wlog EXCEPT ![idx] = <<MetaPath(tree[idx])>>]
    /\ idx' = idx + 1
    /\ UNCHANGED <<tree, encountered, status, run, meta0, snaps, rlog, xvars, rvars, given>>

\* lines 49-54: the crop has no metadata file
RaiseMissing ==
    /\ status = "running" /\ idx <= NCrops
    /\ Processed(idx)
    /\ MetaPath(tree[idx]) \notin DOMAIN meta
    /\ status' = "failed"
    /\ UNCHANGED <<tree, meta, encountered, idx, run, meta0, snaps, rlog, wlog, xvars, rvars, given>>

\* mutant: the list is never reset
ResetNever(orig_meta_data, original_path, seen) == orig_meta_data

\* mutant: the list is reset at every crop
ResetAlways(orig_meta_data, original_path, seen) ==
    SetKey(orig_meta_data, "characters", <<>>)

\* mutant: on its first encounter the original's record is made anew
ResetOnFirstToDefault(orig_meta_data, original_path, seen) ==
    IF original_path \notin seen
    THEN SetKey(DefaultMetadata(original_path), "characters", <<>>)
    ELSE orig_meta_data

\* lines 74-76: the characters of the original on its first encounter
ResetOnFirst(orig_meta_data, original_path, seen) ==
    IF original_path \notin seen
    THEN SetKey(orig_meta_data, "characters", <<>>)
    ELSE orig_meta_data

\* lines 79-80: append the name unless it is in the list
AppendName(chars, char_name) ==
    IF InList(char_name, chars) THEN chars ELSE Append(chars, char_name)

\* mutant: the name is appended to the crop's list
OwnCharactersAppended(meta_data, char_name) ==
    IF "characters" \in DOMAIN meta_data
    THEN Append(meta_data["characters"], char_name)
    ELSE <<char_name>>

\* mutant: a crop that has characters keeps them
OwnCharactersKept(meta_data, char_name) ==
    IF "characters" \in DOMAIN meta_data
    THEN meta_data["characters"]
    ELSE <<char_name>>

\* line 57: the crop's own characters
OwnCharacters(meta_data, char_name) == <<char_name>>

\* mutant: the crop's own record is saved only when it has no `path`
WritesOwnInElse(meta_data, meta_file_path, orig_meta_data, original_meta_path) ==
    IF "path" \in DOMAIN meta_data
    THEN << <<original_meta_path, orig_meta_data>> >>
    ELSE << <<meta_file_path, meta_data>> >>

\* lines 82-88: the files the loop body writes, in order, as <<file, record>>
Writes(meta_data, meta_file_path, orig_meta_data, original_meta_path) ==
    IF "path" \in DOMAIN meta_data
    THEN << <<original_meta_path, orig_meta_data>>, <<meta_file_path, meta_data>> >>
    ELSE << <<meta_file_path, meta_data>> >>

RECURSIVE ApplyWrites(_, _)
\* the store after the writes
ApplyWrites(store, ws) ==
    IF ws = <<>> THEN store
    ELSE ApplyWrites(SetKey(store, ws[1][1], ws[1][2]), Tail(ws))

\* lines 43-84 for the file at position i, the store and encountered_paths
\* being as given: what is read, whether line 79 raises KeyError, and
\* otherwise the records to write
Labelling(store, seen, i) ==
    LET char_name == CharName(tree[i][1])
        meta_file_path == MetaPath(tree[i])
        meta_data == SetKey(store[meta_file_path], "characters",
                            OwnCharacters(store[meta_file_path], char_name))
        linked == "path" \in DOMAIN meta_data
        original_path == IF linked THEN meta_data["path"] ELSE tree[i]
        original_meta_path == MetaPath(original_path)
        loaded == IF original_meta_path \in DOMAIN store
                  THEN store[original_meta_path]
                  ELSE DefaultMetadata(original_path)
        reset == ResetOnFirst(loaded, original_path, seen)
        raises == linked /\ "characters" \notin DOMAIN reset
        orig_meta_data ==
            IF linked
            THEN SetKey(reset, "characters",
                        AppendName(reset["characters"], char_name))
            ELSE reset
    IN  [reads |-> IF linked
                   THEN {meta_file_path} \cup ({original_meta_path} \cap DOMAIN store)
                   ELSE {meta_file_path},
         raises |-> raises,
         seen |-> IF linked THEN seen \cup {original_path} ELSE seen,
         ws |-> IF raises THEN <<>>
                ELSE Writes(meta_data, meta_file_path,
                            orig_meta_data, original_meta_path)]

\* lines 43-88: one image with a metadata file
LabelImage ==
    /\ status = "running" /\ idx <= NCrops
    /\ Processed(idx)
    /\ MetaPath(tree[idx]) \in DOMAIN meta
    /\ LET l == Labelling(meta, encountered, idx)
       IN  IF l.raises
           THEN \* line 79: KeyError
                /\ status' = "failed"
                /\ rlog' = rlog \cup l.reads
                /\ UNCHANGED <<meta, encountered, idx, wlog>>
           ELSE /\ meta' = ApplyWrites(meta, l.ws)
                /\ encountered' = l.seen
                /\ rlog' = rlog \cup l.reads
                /\ wlog' = [wlog EXCEPT
                               ![idx] = [k \in 1..Len(l.ws) |-> l.ws[k][1]]]
                /\ idx' = idx + 1
                /\ status' = status
    /\ UNCHANGED <<tree, run, meta0, snaps, xvars, rvars, given>>

\* the listing is exhausted: the function returns
Return ==
    /\ status = "running" /\ idx = NCrops + 1
    /\ status' = "done"
    /\ snaps' = Append(snaps, meta)
    /\ UNCHANGED <<tree, meta, encountered, idx, run, meta0, rlog, wlog, xvars, rvars, given>>

Next ==
    \/ StartRun
    \/ SkipNoise
    \/ SkipNonImage
    \/ RaiseMissing
    \/ LabelImage
    \/ Return

Spec == Init /\ [][Next]_vars

(***************************************************************************)
(* A run that aborts on a crop without metadata, the record supplied, and  *)
(* the function called again on the same tree.                             *)
(***************************************************************************)
\* after the raise of lines 53-54 the missing metadata file is put in
\* place, as an earlier stage would have left it
SupplyRecord ==
    /\ status = "failed" /\ idx <= NCrops
    /\ MetaPath(tree[idx]) \notin DOMAIN meta
    /\ run < MaxRuns
    /\ \E opt \in RecordOptions(tree) \ {<<"none">>} :
          /\ meta' = SetKey(meta, MetaPath(tree[idx]), CropRecord(tree[idx], opt))
          /\ given' = SetKey(given, MetaPath(tree[idx]), CropRecord(tree[idx], opt))
    /\ status' = "idle"
    /\ UNCHANGED <<tree, encountered, idx, run, meta0, snaps, rlog, wlog,
                   xvars, rvars>>

RECURSIVE RunFrom(_, _, _)
\* lines 24-88 from the file at position i on, as one computation: the
\* store it leaves and how it ends
RunFrom(store, seen, i) ==
    IF i > NCrops THEN [store |-> store, end |-> "done"]
    ELSE IF ~Processed(i) THEN RunFrom(store, seen, i + 1)
    ELSE IF MetaPath(tree[i]) \notin DOMAIN store
         THEN [store |-> store, end |-> "failed"]
    ELSE LET l == Labelling(store, seen, i)
         IN  IF l.raises THEN [store |-> store, end |-> "failed"]
             ELSE RunFrom(ApplyWrites(store, l.ws), l.seen, i + 1)

\* a single run of save_characters_to_meta on a store
CompleteRun(store) == RunFrom(store, {}, 1)

NextRerun ==
    \/ (StartRun /\ status = "idle")
    \/ SkipNoise
    \/ SkipNonImage
    \/ RaiseMissing
    \/ LabelImage
    \/ Return
    \/ SupplyRecord

SpecRerun == Init /\ [][NextRerun]_vars

(***************************************************************************)
(* resize_image, save_image_and_meta, resize_character_images.             *)
(***************************************************************************)
Min(a, b) == IF a < b THEN a ELSE b

\* cvRound(n / d) for n >= 0, d > 0: to the nearest integer, a tie to the
\* even one
RoundDiv(n, d) ==
    LET q == n \div d
        r == n % d
    IN  IF 2 * r < d THEN q
        ELSE IF 2 * r > d THEN q + 1
        ELSE IF q % 2 = 0 THEN q ELSE q + 1

\* mutant: no early return, the image is scaled whatever its size
ResizeAlways(dims, max_size) ==
    LET m == Min(dims[1], dims[2])
    IN  <<RoundDiv(dims[1] * max_size, m), RoundDiv(dims[2] * max_size, m)>>

\* lines 91-103 on the image's <<height, width>>; cv2.resize with fx = fy =
\* max_size / min(height, width) rounds each side
resize_image(dims, max_size) ==
    LET height == dims[1]
        width == dims[2]
        m == Min(height, width)
    IN  IF max_size > m THEN dims
        ELSE <<RoundDiv(height * max_size, m), RoundDiv(width * max_size, m)>>

\* ndarray.size of an image read by cv2.imread: height * width * 3 channels
ImgSize(dims) == dims[1] * dims[2] * 3

\* mutant: a crop of exactly half the original's size is rejected too
OversizedOrHalf(crop_dims, orig_dims) ==
    2 * ImgSize(crop_dims) >= ImgSize(orig_dims)

\* line 168: cropped_img.size > 0.5 * original_img.size
Oversized(crop_dims, orig_dims) == 2 * ImgSize(crop_dims) > ImgSize(orig_dims)

\* what encoding an image can end in: cv2.imencode (line 123) succeeds or
\* raises cv2.error; cv2.imwrite (line 132) succeeds, returns False having
\* written nothing, or raises
EncodeOutcomes(ext) ==
    IF ext = WEBP THEN {"ok", "error"} ELSE {"ok", "false", "raise"}

\* line 139: the filename with every '.png' replaced by ext
AdjustFilename(filename, ext) == Replace(filename, PNG, ext)

\* lines 112-118: the name of the exported image
AdjustedName(img_path, ext) == SplitExt(img_path[2])[1] \o ext

\* lines 121-132: is the image file written, and does the function go on to
\* the metadata
ImageWritten(ext, enc) == enc = "ok"

GoesOnToMeta(ext, enc) == IF ext = WEBP THEN enc = "ok" ELSE enc # "raise"

\* lines 106-145 with the encoder ending in enc: the destination files
\* after the call and how the call ended ("ok", "skipped", "raised")
save_image_and_meta(img, img_path, save_dir, ext, enc, store, images, metas) ==
    LET adjusted_path == <<save_dir, AdjustedName(img_path, ext)>>
        images1 == IF ImageWritten(ext, enc)
                   THEN SetKey(images, adjusted_path,
                               [src |-> img_path, dims |-> img])
                   ELSE images
        meta_path == MetaPath(img_path)
        meta_filename == MetaName(img_path[2])
    IN  IF ~GoesOnToMeta(ext, enc)
        THEN [images |-> images1, metas |-> metas,
              end |-> IF ext = WEBP THEN "skipped" ELSE "raised"]
        ELSE IF meta_path \in DOMAIN store /\ "filename" \in DOMAIN store[meta_path]
        THEN LET meta_data == SetKey(store[meta_path], "filename",
                                  AdjustFilename(store[meta_path]["filename"], ext))
             IN  [images |-> images1,
                  metas |-> SetKey(metas, <<save_dir, meta_filename>>,
                                   [src |-> img_path, rec |-> meta_data]),
                  end |-> "ok"]
        ELSE [images |-> images1, metas |-> metas, end |-> "raised"]

DstCropped == <<"d", "c">>
DstFull == <<"d", "f">>

\* line 163 and 188: 'characters' in meta_data and meta_data['characters']
HasCharacters(meta_data) ==
    "characters" \in DOMAIN meta_data /\ meta_data["characters"] # <<>>

\* the dimensions of the image file at a path (cv2.imread)
ImageAt(path) ==
    LET all == Range(xcrops) \cup Range(xfulls)
    IN  (CHOOSE im \in all : im.path = path).dims

\* the position after the one at pos in a phase over a list of length n
Advance(n, nextPhase) ==
    IF pos < n THEN phase' = phase /\ pos' = pos + 1
    ELSE phase' = nextPhase /\ pos' = 1

\* line 163 false: nothing is done for the crop
CropNoCharacters ==
    /\ phase = "A"
    /\ MetaPath(xcrops[pos].path) \in DOMAIN meta
    /\ ~HasCharacters(meta[MetaPath(xcrops[pos].path)])
    /\ Advance(NXCrops, "B")
    /\ UNCHANGED <<meta, meta0, svars, rvars, given, xcrops, xfulls, args, cands,
                   selected, dstImg, dstMeta, calls>>

\* line 164: meta_data['path'] of a record without `path`
CropNoPath ==
    /\ phase = "A"
    /\ MetaPath(xcrops[pos].path) \in DOMAIN meta
    /\ HasCharacters(meta[MetaPath(xcrops[pos].path)])
    /\ "path" \notin DOMAIN meta[MetaPath(xcrops[pos].path)]
    /\ phase' = "failed"
    /\ UNCHANGED <<meta, meta0, svars, rvars, given, xcrops, xfulls, args, pos, cands,
                   selected, dstImg, dstMeta, calls>>

\* lines 168-169: the crop is too large a part of its original
CropOversized ==
    /\ phase = "A"
    /\ MetaPath(xcrops[pos].path) \in DOMAIN meta
    /\ HasCharacters(meta[MetaPath(xcrops[pos].path)])
    /\ "path" \in DOMAIN meta[MetaPath(xcrops[pos].path)]
    /\ Oversized(xcrops[pos].dims, ImageAt(meta[MetaPath(xcrops[pos].path)]["path"]))
    /\ Advance(NXCrops, "B")
    /\ UNCHANGED <<meta, meta0, svars, rvars, given, xcrops, xfulls, args, cands,
                   selected, dstImg, dstMeta, calls>>

\* a call of save_image_and_meta from the pass, the encoder ending in enc
SaveFrom(im, save_dir, enc, n, nextPhase) ==
    LET r == save_image_and_meta(resize_image(im.dims, args.max_size), im.path,
                                 save_dir, args.ext, enc, meta, dstImg, dstMeta)
    IN  /\ dstImg' = r.images
        /\ dstMeta' = r.metas
        /\ calls' = Append(calls, [path |-> im.path, dir |-> save_dir, enc |-> enc,
                                   end |-> r.end])
        /\ IF r.end = "raised"
           THEN phase' = "failed" /\ pos' = pos
           ELSE Advance(n, nextPhase)

\* mutant: a crop without metadata is resized and saved
CropMissingHandedOver ==
    /\ phase = "A"
    /\ MetaPath(xcrops[pos].path) \notin DOMAIN meta
    /\ \E enc \in EncodeOutcomes(args.ext) :
          SaveFrom(xcrops[pos], DstCropped, enc, NXCrops, "B")
    /\ UNCHANGED <<meta, meta0, svars, rvars, given, xcrops, xfulls, args, cands, selected>>

\* lines 157-176: a crop without metadata
CropMissing ==
    /\ phase = "A"
    /\ MetaPath(xcrops[pos].path) \notin DOMAIN meta
    /\ phase' = "failed"
    /\ UNCHANGED <<meta, meta0, svars, rvars, given, xcrops, xfulls, args, pos, cands,
                   selected, dstImg, dstMeta, calls>>

\* lines 171-173: the crop is resized and saved
CropExport ==
    /\ phase = "A"
    /\ MetaPath(xcrops[pos].path) \in DOMAIN meta
    /\ HasCharacters(meta[MetaPath(xcrops[pos].path)])
    /\ "path" \in DOMAIN meta[MetaPath(xcrops[pos].path)]
    /\ ~Oversized(xcrops[pos].dims, ImageAt(meta[MetaPath(xcrops[pos].path)]["path"]))
    /\ \E enc \in EncodeOutcomes(args.ext) :
          SaveFrom(xcrops[pos], DstCropped, enc, NXCrops, "B")
    /\ UNCHANGED <<meta, meta0, svars, rvars, given, xcrops, xfulls, args, cands, selected>>

\* mutant: line 192 in force, the frame with characters is saved
FrameWithCharactersSaved ==
    /\ phase = "B"
    /\ MetaPath(xfulls[pos].path) \in DOMAIN meta
    /\ HasCharacters(meta[MetaPath(xfulls[pos].path)])
    /\ \E enc \in EncodeOutcomes(args.ext) :
          SaveFrom(xfulls[pos], DstFull, enc, NXFrames, "S")
    /\ UNCHANGED <<meta, meta0, svars, rvars, given, xcrops, xfulls, args, cands, selected>>

\* lines 188-192: a frame with characters is resized and not saved
FrameWithCharacters ==
    /\ phase = "B"
    /\ MetaPath(xfulls[pos].path) \in DOMAIN meta
    /\ HasCharacters(meta[MetaPath(xfulls[pos].path)])
    /\ Advance(NXFrames, "S")
    /\ UNCHANGED <<meta, meta0, svars, rvars, given, xcrops, xfulls, args, cands,
                   selected, dstImg, dstMeta, calls>>

\* mutant: the record of a frame without characters is replaced by the
\* default record
FrameNoCharactersRewritten ==
    /\ phase = "B"
    /\ MetaPath(xfulls[pos].path) \in DOMAIN meta
    /\ ~HasCharacters(meta[MetaPath(xfulls[pos].path)])
    /\ meta' = SetKey(meta, MetaPath(xfulls[pos].path),
                      DefaultMetadata(xfulls[pos].path))
    /\ cands' = Append(cands, xfulls[pos].path)
    /\ Advance(NXFrames, "S")
    /\ UNCHANGED <<meta0, svars, rvars, given, xcrops, xfulls, args,
                   selected, dstImg, dstMeta, calls>>

\* lines 193-194: a frame whose record has no characters
FrameNoCharacters ==
    /\ phase = "B"
    /\ MetaPath(xfulls[pos].path) \in DOMAIN meta
    /\ ~HasCharacters(meta[MetaPath(xfulls[pos].path)])
    /\ cands' = Append(cands, xfulls[pos].path)
    /\ Advance(NXFrames, "S")
    /\ UNCHANGED <<meta, meta0, svars, rvars, given, xcrops, xfulls, args,
                   selected, dstImg, dstMeta, calls>>

\* mutant: the default record is made and not written
FrameBackfillUnsaved ==
    /\ phase = "B"
    /\ MetaPath(xfulls[pos].path) \notin DOMAIN meta
    /\ cands' = Append(cands, xfulls[pos].path)
    /\ Advance(NXFrames, "S")
    /\ UNCHANGED <<meta, meta0, svars, rvars, given, xcrops, xfulls, args,
                   selected, dstImg, dstMeta, calls>>

\* lines 195-199: a frame without metadata gets the default record
FrameBackfill ==
    /\ phase = "B"
    /\ MetaPath(xfulls[pos].path) \notin DOMAIN meta
    /\ meta' = SetKey(meta, MetaPath(xfulls[pos].path),
                      DefaultMetadata(xfulls[pos].path))
    /\ cands' = Append(cands, xfulls[pos].path)
    /\ Advance(NXFrames, "S")
    /\ UNCHANGED <<meta0, svars, rvars, given, xcrops, xfulls, args,
                   selected, dstImg, dstMeta, calls>>

\* the lists random.sample(population, k) can return: k positions of the
\* population, no position twice, in any order
Samples(population, k) ==
    {[i \in 1..k |-> population[f[i]]] :
        f \in {g \in [1..k -> 1..Len(population)] :
                  \A i, j \in 1..k : i # j => g[i] # g[j]}}

\* mutant: the comparison of line 202 inverted
SelectFramesInverted(n_nocharacter_frames, nocharacter_frames) ==
    IF n_nocharacter_frames > Len(nocharacter_frames)
    THEN Samples(nocharacter_frames, n_nocharacter_frames)
    ELSE {nocharacter_frames}

\* lines 202-206
SelectFrames(n_nocharacter_frames, nocharacter_frames) ==
    IF n_nocharacter_frames < Len(nocharacter_frames)
    THEN Samples(nocharacter_frames, n_nocharacter_frames)
    ELSE {nocharacter_frames}

\* lines 201-207
Sample ==
    /\ phase = "S"
    /\ \E sel \in SelectFrames(args.n, cands) :
          /\ selected' = sel
          /\ phase' = IF sel = <<>> THEN "done" ELSE "C"
    /\ pos' = 1
    /\ UNCHANGED <<meta, meta0, svars, rvars, given, xcrops, xfulls, args, cands,
                   dstImg, dstMeta, calls>>

\* lines 208-212: a selected frame is resized and saved
FrameExport ==
    /\ phase = "C"
    /\ LET im == CHOOSE im \in Range(xfulls) : im.path = selected[pos]
       IN  \E enc \in EncodeOutcomes(args.ext) :
              SaveFrom(im, DstFull, enc, Len(selected), "done")
    /\ UNCHANGED <<meta, meta0, svars, rvars, given, xcrops, xfulls, args, cands, selected>>

(***************************************************************************)
(* The worlds of the export pass.                                          *)
(***************************************************************************)
XNames == { <<"a">> \o PNG, <<"b">> \o JPG }

XCropDir(i) == <<"c", Digit[i]>>
XFullDir(j) == <<"f", Digit[j]>>

FrameDims == <<2, 4>>
SmallDims == <<2, 2>>
BigDims == <<2, 3>>

\* a crop of the export world: its name, what its record is, its size
XCropOptions ==
    {<<n, "linked", SmallDims>> : n \in XNames}
      \cup {<<<<"a">> \o PNG, "linked", BigDims>>}
      \cup {<<<<"a">> \o PNG, k, SmallDims>> :
               k \in {"none", "nokey", "empty", "nopath"}}

\* a frame of the export world: its name and what its record is
XFrameOptions ==
    ({<<"a">> \o PNG} \X {"none", "empty", "labelled"})
        \cup {<<<<"b">> \o JPG, "none">>}

\* the calls of the model: max_size below and above the images' shorter
\* side, the extension with the encoder of its branch of line 121
XCalls == {<<1, WEBP>>, <<3, PNG>>}

\* the record of an image of the export world as the earlier stages left it
XRecord(p, kind, original) ==
    LET base == [k \in {"filename", "tags"} |->
                    IF k = "filename" THEN p[2] ELSE <<"t">>]
    IN  CASE kind = "nokey" -> SetKey(base, "path", original)
          [] kind = "empty" -> SetKey(SetKey(base, "path", original),
                                      "characters", <<>>)
          [] kind = "nopath" -> SetKey(base, "characters", << <<"a">> >>)
          [] kind = "linked" -> SetKey(SetKey(base, "path", original),
                                       "characters", << <<"a">> >>)
          [] kind = "labelled" -> SetKey(SetKey(base, "path", p),
                                         "characters", << <<"a">> >>)

XCrops == 1..NXCrops
XFrames == 1..NXFrames

InitX ==
    /\ \E co \in [XCrops -> XCropOptions], fo \in [XFrames -> XFrameOptions] :
          /\ xcrops = [i \in XCrops |->
                          [path |-> <<XCropDir(i), co[i][1]>>, dims |-> co[i][3]]]
          /\ xfulls = [j \in XFrames |->
                          [path |-> <<XFullDir(j), fo[j][1]>>, dims |-> FrameDims]]
          /\ meta = [m \in {MetaPath(<<XCropDir(i), co[i][1]>>) :
                               i \in {c \in XCrops : co[c][2] # "none"}}
                           \cup {MetaPath(<<XFullDir(j), fo[j][1]>>) :
                                    j \in {f \in XFrames : fo[f][2] # "none"}} |->
                       IF m[1] \in {XCropDir(i) : i \in XCrops}
                       THEN LET i == CHOOSE i \in XCrops : XCropDir(i) = m[1]
                            IN  XRecord(<<XCropDir(i), co[i][1]>>, co[i][2],
                                        <<XFullDir(1), fo[1][1]>>)
                       ELSE LET j == CHOOSE j \in XFrames : XFullDir(j) = m[1]
                            IN  XRecord(<<XFullDir(j), fo[j][1]>>, fo[j][2],
                                        <<XFullDir(j), fo[j][1]>>)]
    /\ \E c \in XCalls, n \in 0..MaxN :
          args = [max_size |-> c[1], ext |-> c[2], n |-> n]
    /\ meta0 = meta
    /\ phase = "A" /\ pos = 1
    /\ cands = <<>> /\ selected = <<>>
    /\ dstImg = <<>> /\ dstMeta = <<>> /\ calls = <<>>
    /\ tree = <<>> /\ encountered = {} /\ idx = 1 /\ status = "off" /\ run = 0
    /\ snaps = <<>> /\ rlog = {} /\ wlog = <<>>
    /\ r_image = <<1, 1>> /\ r_max_size = 1 /\ r_result = <<>>
    /\ given = meta

NextX ==
    \/ CropMissing
    \/ CropNoCharacters
    \/ CropNoPath
    \/ CropOversized
    \/ CropExport
    \/ FrameWithCharacters
    \/ FrameNoCharacters
    \/ FrameBackfill
    \/ Sample
    \/ FrameExport

SpecExport == InitX /\ [][NextX]_vars

(***************************************************************************)
(* resize_image on its own: every image and every max_size of the bounds.  *)
(***************************************************************************)
Sides == 1..MaxSide

InitResize ==
    /\ r_image \in Sides \X Sides
    /\ r_max_size \in 1..(MaxSide + 1)
    /\ r_result = <<>>
    /\ tree = <<>> /\ meta = <<>> /\ meta0 = <<>> /\ given = <<>>
    /\ encountered = {} /\ idx = 1 /\ status = "off" /\ run = 0
    /\ snaps = <<>> /\ rlog = {} /\ wlog = <<>>
    /\ xcrops = <<>> /\ xfulls = <<>>
    /\ args = [max_size |-> 1, ext |-> PNG, n |-> 0]
    /\ phase = "off" /\ pos = 1
    /\ cands = <<>> /\ selected = <<>>
    /\ dstImg = <<>> /\ dstMeta = <<>> /\ calls = <<>>

\* lines 91-103: the call
Resize ==
    /\ r_result = <<>>
    /\ r_result' = resize_image(r_image, r_max_size)
    /\ UNCHANGED <<meta, meta0, svars, xvars, r_image, r_max_size, given>>

NextResize == Resize

SpecResize == InitResize /\ [][NextResize]_vars

(***************************************************************************)
(* The two components side by side: a run of save_characters_to_meta over  *)
(* a crop tree, or a pass of resize_character_images that is asked for as  *)
(* many frames without characters as there can be.                         *)
(***************************************************************************)
InitRecords == Init \/ (InitX /\ args.n = MaxN)

NextRecords ==
    \/ (StartRun /\ run = 0)
    \/ SkipNoise
    \/ SkipNonImage
    \/ RaiseMissing
    \/ LabelImage
    \/ Return
    \/ CropMissing
    \/ CropNoCharacters
    \/ CropNoPath
    \/ CropOversized
    \/ CropExport
    \/ FrameWithCharacters
    \/ FrameNoCharacters
    \/ FrameBackfill
    \/ Sample
    \/ FrameExport

SpecRecords == InitRecords /\ [][NextRecords]_vars

(***************************************************************************)
(* Properties of save_characters_to_meta (checked under Spec).             *)
(***************************************************************************)
\* the crops a run labels: image files outside the noise folders
Labelled == {i \in Crops : Len(tree) = NCrops /\ Processed(i)}

\* the labelled crops whose record links to the path F
Linkers(F) ==
    {i \in Labelled : /\ MetaPath(tree[i]) \in DOMAIN meta
                      /\ "path" \in DOMAIN meta[MetaPath(tree[i])]
                      /\ meta[MetaPath(tree[i])]["path"] = F}

\* the paths crops link to that are not themselves labelled crops
Originals == LinkTargets(tree) \ {tree[i] : i \in Labelled}

NoDuplicates(l) == \A i, j \in 1..Len(l) : l[i] = l[j] => i = j

\* C1 (label reset-once): when a run has completed, every original frame F
\* linked by at least one labelled crop has a record, made from the default
\* record when F had none; its characters are, without duplicates, exactly
\* the names derived from the folders of the crops linking to F, whatever
\* the listing order, and so hold no label of an earlier run that this run
\* did not derive again.
C1_ResetOnce ==
    status = "done" =>
        \A F \in Originals :
            Linkers(F) # {} =>
                /\ MetaPath(F) \in DOMAIN meta
                /\ "characters" \in DOMAIN meta[MetaPath(F)]
                /\ NoDuplicates(meta[MetaPath(F)]["characters"])
                /\ Range(meta[MetaPath(F)]["characters"])
                      = {CharName(tree[i][1]) : i \in Linkers(F)}
                /\ MetaPath(F) \notin DOMAIN meta0 =>
                      meta[MetaPath(F)]
                         = SetKey(DefaultMetadata(F), "characters",
                                  meta[MetaPath(F)]["characters"])

\* two crops of different folders link to the frame, whose record held a
\* stale label, and the run has completed
C1_Witness ==
    /\ status = "done" /\ run = 1
    /\ Cardinality({CharName(tree[i][1]) : i \in Linkers(Frame)}) = 2
    /\ MetaPath(Frame) \in DOMAIN meta0
    /\ InList(<<"z">>, meta0[MetaPath(Frame)]["characters"])

\* the characters of every record of a store (absent: no such key)
CharactersOf(store) ==
    [m \in DOMAIN store |->
        IF "characters" \in DOMAIN store[m]
        THEN <<"list", store[m]["characters"]>> ELSE <<"absent">>]

\* C2 (idempotence of labeling): a run on the tree a completed run left
\* ends with the same characters in every record as that run did.
C2_Idempotent ==
    \A k \in 1..(Len(snaps) - 1) :
        CharactersOf(snaps[k + 1]) = CharactersOf(snaps[k])

\* a second run has completed on a tree where the first run changed the
\* frame's characters
C2_Witness ==
    /\ Len(snaps) = 2
    /\ MetaPath(Frame) \in DOMAIN snaps[2]
    /\ snaps[2][MetaPath(Frame)]["characters"] = << <<"a">>, <<"b">> >>

\* the labelled crops other than i that link to crop i from a folder with
\* another derived name
ForeignLinkers(i) ==
    {j \in Linkers(tree[i]) : CharName(tree[j][1]) # CharName(tree[i][1])}

\* C3 as stated: after a run every labelled crop's characters are the one
\* name derived from its folder, for any assignment of `path` links.
C3_AnyLinks ==
    status = "done" =>
        \A i \in Labelled :
            meta[MetaPath(tree[i])]["characters"] = <<CharName(tree[i][1])>>

\* C3 amended: after a run every labelled crop's characters are the one
\* name derived from its folder, provided no labelled crop of a folder with
\* another derived name links to it (a crop may link to itself or to a crop
\* of its own folder).
C3_OwnLabel ==
    status = "done" =>
        \A i \in Labelled :
            ForeignLinkers(i) = {} =>
                meta[MetaPath(tree[i])]["characters"] = <<CharName(tree[i][1])>>

\* a run has completed over a crop whose `path` names the crop itself and
\* which a later crop of its folder links to as well
C3_Witness ==
    /\ status = "done"
    /\ \E i, j \in Labelled :
          /\ i < j
          /\ i \in Linkers(tree[i]) /\ j \in Linkers(tree[i])
          /\ ForeignLinkers(i) = {}

\* the run is at a labelled crop that has no metadata file
AtMissing ==
    /\ status = "running" /\ idx <= NCrops
    /\ ~StartsWith(CharName(tree[idx][1]), NOISE)
    /\ Lower(SplitExt(tree[idx][2])[2]) \in ImageExts
    /\ MetaPath(tree[idx]) \notin DOMAIN meta

AtNoise ==
    /\ status = "running" /\ idx <= NCrops
    /\ StartsWith(Join("_", Tail(Split(tree[idx][1], "_"))), NOISE)

\* C5: for a file of a noise folder the run reads and writes no metadata,
\* neither the file's record nor the record of the frame it links to.
C5_NoiseUntouched ==
    [][AtNoise =>
          /\ meta' = meta /\ rlog' = rlog /\ wlog' = wlog
          /\ encountered' = encountered /\ status' = status]_vars

\* the run has passed an image of a noise folder whose record links to the
\* frame, and both records are as they were
C5_Witness ==
    /\ status = "done"
    /\ \E i \in Crops :
          /\ StartsWith(CharName(tree[i][1]), NOISE)
          /\ IsImageFile(tree[i][2])
          /\ MetaPath(tree[i]) \in DOMAIN meta
          /\ "path" \in DOMAIN meta[MetaPath(tree[i])]
          /\ meta[MetaPath(tree[i])]["path"] = Frame
          /\ meta[MetaPath(tree[i])] = meta0[MetaPath(tree[i])]
          /\ MetaPath(Frame) \in DOMAIN meta
          /\ meta[MetaPath(Frame)]["characters"] = << <<"z">>, <<"a">> >>

\* the files the run has handled so far
Handled == {i \in Crops : i < idx}

\* the metadata files written so far in the run
Written == UNION {Range(wlog[i]) : i \in DOMAIN wlog}

\* C6: a labelled crop causes two metadata writes when its record has a
\* `path` (the frame's record, then its own) and one (its own) when it has
\* none; nothing else is written.
C6_WritesPerCrop ==
    /\ \A i \in Handled :
          IF i \in Labelled
          THEN IF "path" \in DOMAIN meta[MetaPath(tree[i])]
               THEN wlog[i] = <<MetaPath(meta[MetaPath(tree[i])]["path"]),
                                MetaPath(tree[i])>>
               ELSE wlog[i] = <<MetaPath(tree[i])>>
          ELSE wlog[i] = <<>>
    /\ \A i \in Crops \ Handled : Len(tree) = NCrops => wlog[i] = <<>>
    /\ status # "off" =>
          \A m \in (DOMAIN meta \cup DOMAIN meta0) \ Written :
              m \in DOMAIN meta /\ m \in DOMAIN meta0 /\ meta[m] = meta0[m]

\* a run has completed over a crop with a `path` and a crop without
C6_Witness ==
    /\ status = "done"
    /\ \E i, j \in Labelled : Len(wlog[i]) = 2 /\ Len(wlog[j]) = 1

\* the labelled crops the run has handled whose record links to the path F
HandledLinkers(F) == {i \in Linkers(F) : i < idx}

RECURSIVE NamesUpTo(_, _)
\* the names derived from the folders of the first k files that link to F,
\* each once, in the order of its first crop
NamesUpTo(F, k) ==
    IF k = 0 THEN <<>>
    ELSE IF k \in Linkers(F)
              /\ ~InList(CharName(tree[k][1]), NamesUpTo(F, k - 1))
         THEN Append(NamesUpTo(F, k - 1), CharName(tree[k][1]))
         ELSE NamesUpTo(F, k - 1)

\* C17: within a run the characters of an original frame are reset once,
\* at the first crop handled that links to it and before that crop's name
\* is appended: until then the frame's record is as it was, from then on
\* its characters are the names of the crops handled so far that link to
\* it, each once and in the order of first insertion, whatever their
\* folders; encountered_paths is empty when a run starts, is the set of
\* originals of the crops handled so far, and only grows during the run.
C17_ResetExactlyOnce ==
    /\ [](status \in {"running", "done", "failed"} =>
            /\ encountered = {F \in LinkTargets(tree) : HandledLinkers(F) # {}}
            /\ \A F \in Originals :
                  IF HandledLinkers(F) = {}
                  THEN IF MetaPath(F) \in DOMAIN meta0
                       THEN /\ MetaPath(F) \in DOMAIN meta
                            /\ meta[MetaPath(F)] = meta0[MetaPath(F)]
                       ELSE MetaPath(F) \notin DOMAIN meta
                  ELSE /\ MetaPath(F) \in DOMAIN meta
                       /\ "characters" \in DOMAIN meta[MetaPath(F)]
                       /\ meta[MetaPath(F)]["characters"] = NamesUpTo(F, idx - 1))
    /\ [][IF run' # run THEN encountered' = {}
          ELSE encountered \subseteq encountered']_vars

\* a run has completed in which a crop of folder 1_b and then a crop of
\* folder 0_a linked to the frame, whose record held the labels z and a
C17_Witness ==
    /\ status = "done"
    /\ MetaPath(Frame) \in DOMAIN meta0
    /\ meta0[MetaPath(Frame)]["characters"] = << <<"z">>, <<"a">> >>
    /\ MetaPath(Frame) \in DOMAIN meta
    /\ meta[MetaPath(Frame)]["characters"] = << <<"b">>, <<"a">> >>
    /\ encountered = {Frame}

(***************************************************************************)
(* Properties of the re-run after an abort (checked under SpecRerun).      *)
(***************************************************************************)
\* C18 (re-run after abort): when a run has aborted on a crop without
\* metadata, what it had written staying written, and a later run on the
\* same tree with the missing records supplied completes, every record
\* ends with the characters a single complete run would have produced from
\* the initial store with those records in it.
C18_RerunAfterAbort ==
    status = "done" /\ run > 1 =>
        /\ CompleteRun(given).end = "done"
        /\ CharactersOf(meta) = CharactersOf(CompleteRun(given).store)

\* the second run has completed after the first aborted at the second file,
\* having rewritten the record of the first and of the frame
C18_Witness ==
    /\ status = "done" /\ run = 2
    /\ MetaPath(tree[1]) \in DOMAIN given
    /\ MetaPath(tree[2]) \in DOMAIN given
    /\ MetaPath(tree[2]) \in DOMAIN meta0
    /\ meta0[MetaPath(tree[1])] # given[MetaPath(tree[1])]
    /\ MetaPath(Frame) \in DOMAIN given
    /\ meta0[MetaPath(Frame)] # given[MetaPath(Frame)]
    /\ meta[MetaPath(Frame)] # meta0[MetaPath(Frame)]

(***************************************************************************)
(* Properties of the export pass (checked under SpecExport).               *)
(***************************************************************************)
\* C7 (extension fidelity) as stated: every exported image file has the
\* requested extension and every exported record's filename ends in it,
\* whatever the extension of the source image and of its record's filename.
C7_ExtensionFidelity ==
    /\ \A k \in DOMAIN dstImg : SplitExt(k[2])[2] = args.ext
    /\ \A k \in DOMAIN dstMeta : EndsWith(dstMeta[k].rec["filename"], args.ext)

\* the image files of a destination directory that have the metadata name m
ImagesNamed(dir, m) ==
    {k \in DOMAIN dstImg : k[1] = dir /\ MetaName(k[2]) = m}

\* C8 as stated: after the pass every exported image file has its metadata
\* record in the same directory and every exported record has its image.
C8_Paired ==
    phase = "done" =>
        /\ \A k \in DOMAIN dstImg : <<k[1], MetaName(k[2])>> \in DOMAIN dstMeta
        /\ \A k \in DOMAIN dstMeta : ImagesNamed(k[1], k[2]) # {}

\* pixel area of an image
Area(dims) == dims[1] * dims[2]

\* the crops Phase A has passed
PassedCrops ==
    IF phase = "A" THEN 1..(pos - 1)
    ELSE IF phase \in {"B", "S", "C", "done"} THEN DOMAIN xcrops
    ELSE {}

\* the record of crop i names characters and an original
CropLabelled(i) ==
    /\ MetaPath(xcrops[i].path) \in DOMAIN meta
    /\ "characters" \in DOMAIN meta[MetaPath(xcrops[i].path)]
    /\ meta[MetaPath(xcrops[i].path)]["characters"] # <<>>
    /\ "path" \in DOMAIN meta[MetaPath(xcrops[i].path)]

\* crop i is larger than half of the original its record links to
TooLarge(i) ==
    2 * Area(xcrops[i].dims)
        > Area(ImageAt(meta[MetaPath(xcrops[i].path)]["path"]))

\* the calls of save_image_and_meta for a path into a directory
CallsFor(path, dir) ==
    {c \in DOMAIN calls : calls[c].path = path /\ calls[c].dir = dir}

\* nothing in dstRoot/cropped comes from the crop at path
NothingFrom(path) ==
    /\ CallsFor(path, DstCropped) = {}
    /\ \A k \in DOMAIN dstImg : dstImg[k].src # path
    /\ \A k \in DOMAIN dstMeta : dstMeta[k].src # path

\* C9 (area filter) as stated, for a pass that exports .webp: a crop
\* larger than half its original is never exported, and a crop with
\* characters that is not is exported: its image and its record are written
\* to dstRoot/cropped.
C9_AreaFilter ==
    \A i \in PassedCrops :
        CropLabelled(i) /\ args.ext = WEBP =>
            IF TooLarge(i) THEN NothingFrom(xcrops[i].path)
            ELSE \E c \in CallsFor(xcrops[i].path, DstCropped) :
                    calls[c].enc = "ok" /\ calls[c].end = "ok"

\* C9 amended: a crop larger than half its original is never exported; a
\* crop with characters that is not is handed to save_image_and_meta once,
\* and when its encoding succeeds its image and its record are written to
\* dstRoot/cropped.
C9_AreaFilterEncoded ==
    \A i \in PassedCrops :
        CropLabelled(i) =>
            IF TooLarge(i) THEN NothingFrom(xcrops[i].path)
            ELSE /\ Cardinality(CallsFor(xcrops[i].path, DstCropped)) = 1
                 /\ \A c \in CallsFor(xcrops[i].path, DstCropped) :
                       calls[c].enc = "ok" =>
                          /\ calls[c].end = "ok"
                          /\ <<DstCropped, AdjustedName(xcrops[i].path, args.ext)>>
                                \in DOMAIN dstImg
                          /\ <<DstCropped, MetaName(xcrops[i].path[2])>>
                                \in DOMAIN dstMeta

\* the pass has completed after Phase A passed a crop with characters
\* that is larger than half its original
C9_Witness ==
    /\ phase = "done"
    /\ \E i \in DOMAIN xcrops : CropLabelled(i) /\ TooLarge(i)

\* the frames written to dstRoot/full: image and record
ExportedFrames ==
    {calls[c].path : c \in {d \in DOMAIN calls :
        calls[d].dir = DstFull /\ calls[d].enc = "ok" /\ calls[d].end = "ok"}}

\* C10 (sampling bound) as stated, for a pass that exports .webp: the
\* number of frames exported to dstRoot/full is min(n, number of
\* candidates), they are distinct candidates, and with n >= the number of
\* candidates they are all of them.
C10_SamplingBound ==
    phase = "done" /\ args.ext = WEBP =>
        /\ Cardinality(ExportedFrames) = Min(args.n, Len(cands))
        /\ ExportedFrames \subseteq Range(cands)
        /\ args.n >= Len(cands) => ExportedFrames = Range(cands)

\* the calls of save_image_and_meta into dstRoot/full, in order
FullCalls == SelectSeq(calls, LAMBDA c : c.dir = DstFull)

\* C10 amended: the frames selected for export are min(n, number of
\* candidates) distinct candidates, all of them when n >= the number of
\* candidates; each is handed to save_image_and_meta once, and those whose
\* encoding succeeds are the frames exported to dstRoot/full.
C10_SamplingBoundEncoded ==
    /\ phase \in {"C", "done"} =>
          /\ Len(selected) = Min(args.n, Len(cands))
          /\ NoDuplicates(selected)
          /\ Range(selected) \subseteq Range(cands)
          /\ args.n >= Len(cands) => Range(selected) = Range(cands)
    /\ phase = "done" =>
          /\ [c \in DOMAIN FullCalls |-> FullCalls[c].path] = selected
          /\ ExportedFrames
                = {FullCalls[c].path : c \in {d \in DOMAIN FullCalls :
                                                 FullCalls[d].enc = "ok"}}
          /\ \A f \in ExportedFrames :
                /\ <<DstFull, AdjustedName(f, args.ext)>> \in DOMAIN dstImg
                /\ <<DstFull, MetaName(f[2])>> \in DOMAIN dstMeta

\* the pass has completed with fewer frames asked for than there are
\* candidates, and one exported
C10_Witness ==
    /\ phase = "done"
    /\ args.n = 1 /\ Len(cands) = 2
    /\ Cardinality(ExportedFrames) = 1

\* the frames Phase B has passed
PassedFrames ==
    IF phase = "B" THEN 1..(pos - 1)
    ELSE IF phase \in {"S", "C", "done"} THEN DOMAIN xfulls
    ELSE {}

\* frame j had no metadata record when the pass began
HadNoRecord(j) == MetaPath(xfulls[j].path) \notin DOMAIN meta0

\* frame j had no record, or a record with empty or absent characters
NoCharactersAtStart(j) ==
    \/ HadNoRecord(j)
    \/ "characters" \notin DOMAIN meta0[MetaPath(xfulls[j].path)]
    \/ meta0[MetaPath(xfulls[j].path)]["characters"] = <<>>

RECURSIVE CandidatesUpTo(_)
\* the paths of the first k frames that had no characters, in listing order
CandidatesUpTo(k) ==
    IF k = 0 THEN <<>>
    ELSE IF NoCharactersAtStart(k)
         THEN Append(CandidatesUpTo(k - 1), xfulls[k].path)
         ELSE CandidatesUpTo(k - 1)

\* C12: every full frame Phase B has passed that had no metadata record has
\* the default record at its metadata path in the source tree; a frame is
\* in the candidate list only with its record written, so the write comes
\* before the frame is a candidate and before sampling begins; the candidate
\* list is exactly the passed frames that had no record or a record with
\* empty or absent characters.
C12_Backfill ==
    /\ \A j \in PassedFrames :
          HadNoRecord(j) =>
              /\ MetaPath(xfulls[j].path) \in DOMAIN meta
              /\ meta[MetaPath(xfulls[j].path)] = DefaultMetadata(xfulls[j].path)
    /\ \A f \in Range(cands) : MetaPath(f) \in DOMAIN meta
    /\ phase \in {"B", "S", "C", "done"} =>
          cands = CandidatesUpTo(Cardinality(PassedFrames))
    /\ phase \in {"S", "C", "done"} => PassedFrames = DOMAIN xfulls

\* sampling is about to begin over a frame that had no record and a frame
\* whose record has empty characters
C12_Witness ==
    /\ phase = "S"
    /\ \E j, k \in DOMAIN xfulls :
          /\ HadNoRecord(j)
          /\ ~HadNoRecord(k)
          /\ meta0[MetaPath(xfulls[k].path)]["characters"] = <<>>
    /\ Len(cands) = 2

\* the metadata paths of the crops and of the frames of the source trees
CropMetaPaths == {MetaPath(xcrops[i].path) : i \in DOMAIN xcrops}

FrameMetaPaths == {MetaPath(xfulls[j].path) : j \in DOMAIN xfulls}

\* C13: the pass changes nothing in the source trees except creating
\* default records for full frames that had none: every record that existed
\* when the pass began is there unchanged, every record that did not is the
\* default record of a full frame, and no record is created for a crop.
C13_SourceUnchanged ==
    phase # "off" =>
        /\ \A m \in DOMAIN meta0 : m \in DOMAIN meta /\ meta[m] = meta0[m]
        /\ \A m \in DOMAIN meta \ DOMAIN meta0 :
              /\ m \in FrameMetaPaths
              /\ m \notin CropMetaPaths
              /\ \E j \in DOMAIN xfulls :
                    /\ m = MetaPath(xfulls[j].path)
                    /\ meta[m] = DefaultMetadata(xfulls[j].path)

\* the pass has completed having exported a crop and a frame, over a frame
\* that had no record and a frame that had one
C13_Witness ==
    /\ phase = "done"
    /\ DOMAIN meta # DOMAIN meta0
    /\ \E j \in DOMAIN xfulls : ~HadNoRecord(j)
    /\ \E c, d \in DOMAIN calls :
          /\ calls[c].dir = DstCropped /\ calls[c].end = "ok"
          /\ calls[d].dir = DstFull /\ calls[d].end = "ok"

\* the frames whose record names characters
LabelledFrames == {j \in DOMAIN xfulls : ~NoCharactersAtStart(j)}

\* C14: a full frame whose record has non-empty characters is never
\* exported: it is no candidate, save_image_and_meta is never called for
\* it, and every image and every record in dstRoot/full comes from a frame
\* of the candidate list.
C14_LabelledFramesStay ==
    /\ \A j \in LabelledFrames :
          /\ xfulls[j].path \notin Range(cands)
          /\ CallsFor(xfulls[j].path, DstFull) = {}
    /\ \A k \in DOMAIN dstImg :
          k[1] = DstFull => dstImg[k].src \in Range(cands)
    /\ \A k \in DOMAIN dstMeta :
          k[1] = DstFull => dstMeta[k].src \in Range(cands)

\* the pass has completed over a frame with characters and has exported a
\* frame without
C14_Witness ==
    /\ phase = "done"
    /\ LabelledFrames # {}
    /\ \E k \in DOMAIN dstImg : k[1] = DstFull
    /\ \E k \in DOMAIN dstMeta : k[1] = DstFull

\* C15 as stated: when the encoding of an image fails inside
\* save_image_and_meta, whatever the extension, the call ends as a reported
\* skip, neither the image nor its record is written to the destination,
\* and the pass does not fail on it.
C15_EncodeFailureSkipped ==
    \A c \in DOMAIN calls :
        calls[c].enc # "ok" =>
            /\ calls[c].end = "skipped"
            /\ \A k \in DOMAIN dstImg :
                  ~(k[1] = calls[c].dir /\ dstImg[k].src = calls[c].path)
            /\ \A k \in DOMAIN dstMeta :
                  ~(k[1] = calls[c].dir /\ dstMeta[k].src = calls[c].path)
            /\ (c = Len(calls) => phase # "failed")

\* the pass goes on from the crop at pos having exported nothing for it
CropPassedOver ==
    /\ phase' # "failed"
    /\ (phase' = "A" /\ pos' = pos + 1) \/ phase' = "B"
    /\ calls' = calls /\ dstImg' = dstImg /\ dstMeta' = dstMeta

\* the crop at pos is handed to save_image_and_meta for dstRoot/cropped
\* and, its encoding succeeding, its image and its record are there
CropHandedOver ==
    /\ Len(calls') = Len(calls) + 1
    /\ calls'[Len(calls')].path = xcrops[pos].path
    /\ calls'[Len(calls')].dir = DstCropped
    /\ calls'[Len(calls')].enc = "ok" =>
          /\ phase' # "failed"
          /\ <<DstCropped, AdjustedName(xcrops[pos].path, args.ext)>>
                \in DOMAIN dstImg'
          /\ <<DstCropped, MetaName(xcrops[pos].path[2])>> \in DOMAIN dstMeta'

\* C19 as stated: each crop Phase A comes to has one outcome, decided in
\* this order: without record the pass aborts; with empty or absent
\* characters it is passed over without error; larger than half its
\* original it is passed over; otherwise it is exported to dstRoot/cropped
\* (handed to save_image_and_meta, which writes image and record when the
\* encoding succeeds).  Each candidate frame ends either selected and
\* handed to save_image_and_meta once, or dropped with nothing written.
C19_StateMachine ==
    /\ [][phase = "A" =>
             LET m == MetaPath(xcrops[pos].path)
             IN  IF m \notin DOMAIN meta
                 THEN phase' = "failed" /\ calls' = calls
                 ELSE IF ~("characters" \in DOMAIN meta[m]
                             /\ meta[m]["characters"] # <<>>)
                 THEN CropPassedOver
                 ELSE IF "path" \in DOMAIN meta[m] /\ TooLarge(pos)
                 THEN CropPassedOver
                 ELSE CropHandedOver]_vars
    /\ [](phase = "done" =>
            \A f \in Range(cands) :
                IF f \in Range(selected)
                THEN Cardinality(CallsFor(f, DstFull)) = 1
                ELSE /\ CallsFor(f, DstFull) = {}
                     /\ \A k \in DOMAIN dstImg : dstImg[k].src # f
                     /\ \A k \in DOMAIN dstMeta : dstMeta[k].src # f)

\* C20: every image the pass hands to save_image_and_meta has its metadata
\* record in the source tree at the moment of the call, so the
\* missing-metadata branch of save_image_and_meta is never taken from the
\* pass, and no image whose encoding succeeded is in the destination
\* without its record.
C20_SaveFindsRecord ==
    /\ [][Len(calls') > Len(calls) =>
             /\ MetaPath(calls'[Len(calls')].path) \in DOMAIN meta
             /\ meta' = meta]_vars
    /\ [](\A c \in DOMAIN calls :
             /\ MetaPath(calls[c].path) \in DOMAIN meta
             /\ calls[c].enc = "ok" =>
                   /\ calls[c].end = "ok"
                   /\ <<calls[c].dir, MetaName(calls[c].path[2])>>
                         \in DOMAIN dstMeta)
    /\ [](\A k \in DOMAIN dstImg :
             <<k[1], MetaName(dstImg[k].src[2])>> \in DOMAIN dstMeta)

\* the pass has completed having saved a crop and a frame that had no
\* record when the pass began
C20_Witness ==
    /\ phase = "done"
    /\ \E c \in DOMAIN calls : calls[c].dir = DstCropped /\ calls[c].end = "ok"
    /\ \E c \in DOMAIN calls, j \in DOMAIN xfulls :
          /\ calls[c].dir = DstFull /\ calls[c].end = "ok"
          /\ calls[c].path = xfulls[j].path
          /\ HadNoRecord(j)

(***************************************************************************)
(* Properties of both components (checked under SpecRecords).              *)
(***************************************************************************)
\* two records have the same fields with the same values, but for the
\* field key
SameExcept(r1, r2, key) ==
    /\ DOMAIN r1 \ {key} = DOMAIN r2 \ {key}
    /\ \A k \in DOMAIN r1 \ {key} : r1[k] = r2[k]

\* C16: every record that exists when save_characters_to_meta handles a
\* file exists afterwards and differs from what it was at most in
\* `characters`; every record save_image_and_meta has written to the
\* destination differs from the source record at most in `filename`.
C16_FieldsPreserved ==
    /\ [][status = "running" =>
             \A m \in DOMAIN meta :
                 m \in DOMAIN meta' /\ SameExcept(meta[m], meta'[m], "characters")]_vars
    /\ [](\A k \in DOMAIN dstMeta :
             /\ MetaPath(dstMeta[k].src) \in DOMAIN meta
             /\ SameExcept(meta[MetaPath(dstMeta[k].src)], dstMeta[k].rec,
                           "filename"))

\* the pass has written to the destination a record with another filename
\* than the source record's, and with its tags
C16_Witness ==
    \E k \in DOMAIN dstMeta :
        /\ dstMeta[k].rec["filename"] # meta[MetaPath(dstMeta[k].src)]["filename"]
        /\ "tags" \in DOMAIN dstMeta[k].rec
        /\ "characters" \in DOMAIN dstMeta[k].rec

(***************************************************************************)
(* Properties of resize_image (checked under SpecResize).                  *)
(***************************************************************************)
\* n is an integer nearest to the quotient num / den
Nearest(n, num, den) == 2 * n * den - 2 * num \in (0 - den)..den

\* C11 (resize monotonicity): for every image of height h and width w and
\* every max_size >= 1, the image resize_image returns has a shorter side of
\* at most max_size; when min(h, w) <= max_size it has the dimensions of the
\* input, and otherwise each side is the input's side times
\* max_size / min(h, w), rounded to an integer.
C11_ResizeMonotone ==
    r_result # <<>> =>
        LET m == IF r_image[1] < r_image[2] THEN r_image[1] ELSE r_image[2]
            shorter == IF r_result[1] < r_result[2] THEN r_result[1]
                       ELSE r_result[2]
        IN  /\ shorter <= r_max_size
            /\ m <= r_max_size => r_result = r_image
            /\ m > r_max_size =>
                  /\ Nearest(r_result[1], r_image[1] * r_max_size, m)
                  /\ Nearest(r_result[2], r_image[2] * r_max_size, m)

\* resize_image has scaled down an image that is not square by a factor
\* that is not the inverse of an integer
C11_Witness ==
    /\ r_result # <<>>
    /\ r_image = <<3, 5>> /\ r_max_size = 2
    /\ r_result = <<2, 3>>

====
